---- MODULE Spec2Model ----
(***************************************************************************)
(* Model of pi_app_v1.1.py: the Monte Carlo estimator run_pi_simulation,   *)
(* the renderer plot_simulation, and the Streamlit script that wires them  *)
(* to a slider and a button.                                               *)
(*                                                                         *)
(* Numbers.  A coordinate is an integer count of 1/Scale units, so the     *)
(* square [-1,1] x [-1,1] is -Scale..Scale on each axis and the unit       *)
(* circle is x*x + y*y = Scale*Scale.  The float pi_estimate is the exact  *)
(* rational <<p, q>> in lowest terms.  A number formatted with ".8f" or    *)
(* ".6f" is the integer count of 10^-8 or 10^-6 units it prints.           *)
(*                                                                         *)
(* Two specifications.  Spec calls the two functions directly with any     *)
(* integer point count in -MaxNeg..MaxN and every array of draws over      *)
(* SamplePoints.  SpecApp is the page: the script is rerun from the top on *)
(* every widget event, and st.sidebar.button returns True only in the      *)
(* rerun its own click caused.                                             *)
(***************************************************************************)
EXTENDS Integers, Sequences, FiniteSets, TLC

VARIABLES
    pc,                  \* position of the caller (Spec) or of the script (SpecApp)
    num_points,          \* argument of the direct call (Spec)
    result,              \* the tuple run_pi_simulation returned
    fig,                 \* the figure plot_simulation returned
    n_points_slider,     \* value of the sidebar slider
    n_points,            \* 10**n_points_slider
    run_simulation,      \* what st.sidebar.button returned in this rerun
    results_placeholder, \* content of the st.empty() slot for the results
    plot_placeholder,    \* content of the st.empty() slot for the plot
    lastEvent,           \* history: the widget event that caused this rerun
    triggered,           \* history: the button has been pressed in this session
    simCalls,            \* history: run_pi_simulation calls made by this rerun
    plotCalls            \* history: plot_simulation calls made by this rerun

vars == <<pc, num_points, result, fig, n_points_slider, n_points, run_simulation,
          results_placeholder, plot_placeholder, lastEvent, triggered,
          simCalls, plotCalls>>

appVars == <<n_points_slider, n_points, run_simulation, results_placeholder,
             plot_placeholder, lastEvent, triggered, simCalls, plotCalls>>

---------------------------------------------------------------------------
(* Bounds of the model *)

\* Coordinate resolution: one model unit is 1/Scale.
Scale == 10
\* Largest point count of a direct call whose draws are enumerated in full.
MaxN == 4
\* Direct calls take point counts down to -MaxNeg.
MaxNeg == 2
\* Arrays longer than MaxN are drawn as Mixes+1 blends of an inside and an
\* outside point.
Mixes == 4

(* Program constants *)

SliderMin == 1
SliderMax == 6
SliderDefault == 3
\* math.pi = 3.141592653589793 printed with .8f and with .6f
PiE8 == 314159265
PiE6 == 3141593
\* the three digits of math.pi after the eighth decimal, rounded (0.359e-8)
PiNext == 359

---------------------------------------------------------------------------
(* Arithmetic helpers *)

RECURSIVE GCD(_, _)
GCD(a, b) == IF b = 0 THEN a ELSE GCD(b, a % b)

\* The value a / b (a >= 0, b > 0) of Python's true division, as an exact
\* rational in lowest terms.
TrueDiv(a, b) == LET g == GCD(a, b) IN <<a \div g, b \div g>>

RECURSIVE LongDiv(_, _, _)
\* Long division: <<the first d decimals of rem / q, the remainder left>>,
\* for 0 <= rem < q.
LongDiv(rem, q, d) ==
    IF d = 0 THEN <<0, rem>>
    ELSE LET t == rem * 10
             rest == LongDiv(t % q, q, d - 1)
         IN <<(t \div q) * (10 ^ (d - 1)) + rest[1], rest[2]>>

\* format(r, ".<d>f"): the rational r printed with d decimals, as the
\* integer number of 10^-d units shown (rounded at the last decimal).
Fixed(r, d) ==
    LET ld == LongDiv(r[1] % r[2], r[2], d)
    IN (r[1] \div r[2]) * (10 ^ d) + ld[1] + (IF 2 * ld[2] >= r[2] THEN 1 ELSE 0)

\* format(abs(r - math.pi), ".8f") in 10^-8 units.  t is r truncated to 8
\* decimals; r - math.pi is (t - PiE8) + (f - 0.359) units, where f < 1 is
\* what the truncation dropped.
Difference8(r) ==
    LET ld == LongDiv(r[1] % r[2], r[2], 8)
        t == (r[1] \div r[2]) * (10 ^ 8) + ld[1]
        far == ld[2] * 1000 >= (500 + PiNext) * r[2]
    IN  IF t >= PiE8 THEN (t - PiE8) + (IF far THEN 1 ELSE 0)
        ELSE (PiE8 - t) - (IF far THEN 1 ELSE 0)

---------------------------------------------------------------------------
(* numpy arrays are sequences *)

\* An array holding the values of the sequence f.
np_array(f) == SubSeq(f, 1, Len(f))

\* np.sum of a boolean array: the number of True entries.
np_sum(b) == Cardinality({i \in 1..Len(b) : b[i]})

\* a[mask]: the entries of a at the positions where mask is True, in order.
Masked(a, mask) ==
    LET idx == SelectSeq(np_array([i \in 1..Len(a) |-> i]), LAMBDA i : mask[i])
    IN np_array([j \in 1..Len(idx) |-> a[idx[j]]])

\* ~mask
Not(mask) == np_array([i \in 1..Len(mask) |-> ~mask[i]])

\* Mutant: the draw reaches one unit beyond each end of the interval.
uniform_beyond(low, high) == (low * Scale - 1)..(high * Scale + 1)

\* The values np.random.uniform(low, high, ...) draws from: the interval
\* from low to high, in model units.  numpy documents the interval as
\* [low, high) and notes that rounding may return high; the model keeps both
\* ends, which is the interval the specification text names.
uniform(low, high) == (low * Scale)..(high * Scale)

\* The points the model draws from.  The last two lie outside the square and
\* are drawn only if uniform's interval admits them.
SamplePoints ==
    {<<Scale, 0>>, <<0, Scale>>, <<Scale, Scale>>, <<1, 1>>, <<-Scale, 0>>,
     <<0, 0>>, <<Scale + 1, 0>>, <<0, -Scale - 1>>}

\* The points of SamplePoints that lines 73-74 can draw.
Drawn ==
    {p \in SamplePoints : p[1] \in uniform(-1, 1) /\ p[2] \in uniform(-1, 1)}

\* n points of which the first m are p and the rest are q.
Blend(n, m, p, q) ==
    [x |-> np_array([i \in 1..n |-> IF i <= m THEN p[1] ELSE q[1]]),
     y |-> np_array([i \in 1..n |-> IF i <= m THEN p[2] ELSE q[2]])]

\* The outcomes of the two draws of lines 73-74 for n points that the model
\* considers: every pair of arrays over Drawn up to MaxN points, and for
\* longer arrays the blends of an inside point and an outside point.  For
\* n <= 0 the only member is the pair of empty arrays (nothing is drawn).
Draws(n) ==
    IF n <= MaxN
    THEN {[x |-> np_array([i \in 1..n |-> s[i][1]]),
           y |-> np_array([i \in 1..n |-> s[i][2]])] : s \in [1..n -> Drawn]}
    ELSE {Blend(n, (n * j) \div Mixes, <<1, 1>>, <<Scale, Scale>>) : j \in 0..Mixes}

---------------------------------------------------------------------------
(* run_pi_simulation *)

\* Mutant: the guard tests num <= 1.
EarlyReturn_le_one(num) == num <= 1

\* Mutant: the guard tests num == 0.
EarlyReturn_eq_zero(num) == num = 0

\* line 69
EarlyReturn(num) == num <= 0

\* line 77: distance_sq = x**2 + y**2
DistanceSq(x, y) == np_array([i \in 1..Len(x) |-> x[i] * x[i] + y[i] * y[i]])

\* Mutant: the comparison is strict.
InsideCircle_strict(distance_sq) ==
    np_array([i \in 1..Len(distance_sq) |-> distance_sq[i] < Scale * Scale])

\* line 80: inside_circle = distance_sq <= 1
InsideCircle(distance_sq) ==
    np_array([i \in 1..Len(distance_sq) |-> distance_sq[i] <= Scale * Scale])

\* Mutant: the count is the size of the array.
PointsInside_size(inside_circle) == Len(inside_circle)

\* line 81
PointsInside(inside_circle) == np_sum(inside_circle)

\* Mutant: floor division instead of true division.
PiEstimate_floordiv(points_inside, points_total) ==
    IF points_total > 0 THEN <<(4 * points_inside) \div points_total, 1>> ELSE <<0, 1>>

\* line 85
PiEstimate(points_inside, points_total) ==
    IF points_total > 0 THEN TrueDiv(4 * points_inside, points_total) ELSE <<0, 1>>

\* The returned tuple.  raised is "" for a normal return and names the
\* exception otherwise.
Returned(x, y, inside_circle, pi_estimate, points_inside, points_total) ==
    [raised |-> "", x |-> x, y |-> y, inside_circle |-> inside_circle,
     pi_estimate |-> pi_estimate, points_inside |-> points_inside,
     points_total |-> points_total]

Raised(exception) ==
    [raised |-> exception, x |-> <<>>, y |-> <<>>, inside_circle |-> <<>>,
     pi_estimate |-> <<0, 1>>, points_inside |-> 0, points_total |-> 0]

\* run_pi_simulation(num), where d is what the two np.random.uniform calls
\* draw.  np.random.uniform raises ValueError for a negative size.
run_pi_simulation(num, d) ==
    IF EarlyReturn(num)
    THEN Returned(<<>>, <<>>, <<>>, <<0, 1>>, 0, 0)
    ELSE IF num < 0
    THEN Raised("ValueError")
    ELSE LET x == d.x
             y == d.y
             distance_sq == DistanceSq(x, y)
             inside_circle == InsideCircle(distance_sq)
             points_inside == PointsInside(inside_circle)
             points_total == num
             pi_estimate == PiEstimate(points_inside, points_total)
         IN Returned(x, y, inside_circle, pi_estimate, points_inside, points_total)

NoResult == Raised("unset")

---------------------------------------------------------------------------
(* plot_simulation *)

\* Mutant: the test is points_total >= 0.
HasPoints_ge(points_total) == points_total >= 0

\* lines 94 and 124: if points_total > 0
HasPoints(points_total) == points_total > 0

\* plt.subplots: an empty figure with one axes.
NewFig ==
    [made |-> TRUE, scatter |-> <<>>, text |-> <<>>, patches |-> <<>>,
     legend |-> [shown |-> FALSE, labels |-> {}], title |-> -1]

NoFig == [NewFig EXCEPT !.made = FALSE]

\* ax.get_legend_handles_labels(): the labels of the labelled artists.
LegendLabels(f) ==
    {f.scatter[i].label : i \in 1..Len(f.scatter)}
        \cup {f.patches[i].label : i \in 1..Len(f.patches)}

\* lines 96-103
DrawPoints(f, x, y, inside_circle, pi_estimate, points_inside, points_total) ==
    LET s1 == [x |-> Masked(x, inside_circle), y |-> Masked(y, inside_circle),
               color |-> "blue", label |-> "Inside Circle"]
        s2 == [x |-> Masked(x, Not(inside_circle)),
               y |-> Masked(y, Not(inside_circle)),
               color |-> "red", label |-> "Outside Circle"]
        box == [msg |-> "Points Inside / Total Points / Estimate / Actual",
                xy |-> <<-105, 105>>, ha |-> "left", va |-> "top", bbox |-> TRUE,
                inside |-> points_inside, total |-> points_total,
                estimate |-> Fixed(pi_estimate, 6), actual |-> PiE6]
        f1 == [f EXCEPT !.scatter = <<s1, s2>>, !.text = <<box>>]
    IN [f1 EXCEPT !.legend = [shown |-> TRUE, labels |-> LegendLabels(f1)]]

\* line 105
DrawNoPoints(f) ==
    [f EXCEPT !.text = <<[msg |-> "No points generated", xy |-> <<0, 0>>,
                          ha |-> "center", va |-> "center", bbox |-> FALSE,
                          inside |-> 0, total |-> 0, estimate |-> 0,
                          actual |-> 0]>>]

\* lines 109-121
DrawBoundaries(f, points_total) ==
    [f EXCEPT !.patches = <<[shape |-> "Circle", label |-> "Circle Boundary (r=1)"],
                            [shape |-> "Rectangle", label |-> "Square Boundary"]>>,
              !.title = points_total]

\* lines 124-127
DrawLegend(f, points_total) ==
    IF HasPoints(points_total)
    THEN [f EXCEPT !.legend = [shown |-> TRUE, labels |-> LegendLabels(f)]]
    ELSE f

plot_simulation(x, y, inside_circle, pi_estimate, points_inside, points_total) ==
    LET f0 == NewFig
        f1 == IF HasPoints(points_total)
              THEN DrawPoints(f0, x, y, inside_circle, pi_estimate,
                              points_inside, points_total)
              ELSE DrawNoPoints(f0)
        f2 == DrawBoundaries(f1, points_total)
    IN DrawLegend(f2, points_total)

Plot(r) ==
    plot_simulation(r.x, r.y, r.inside_circle, r.pi_estimate, r.points_inside,
                    r.points_total)

---------------------------------------------------------------------------
(* Direct calls of the two functions: Spec *)

AppIdle ==
    /\ n_points_slider = SliderDefault
    /\ n_points = 10 ^ SliderDefault
    /\ run_simulation = FALSE
    /\ results_placeholder = [kind |-> "empty"]
    /\ plot_placeholder = [kind |-> "empty", fig |-> NoFig]
    /\ lastEvent = "load"
    /\ triggered = FALSE
    /\ simCalls = 0
    /\ plotCalls = 0

Init ==
    /\ pc = "start"
    /\ num_points = 0
    /\ result = NoResult
    /\ fig = NoFig
    /\ AppIdle

\* A caller invokes run_pi_simulation(n).
CallRunPiSimulation ==
    /\ pc = "start"
    /\ \E n \in (-MaxNeg)..MaxN :
          \E d \in Draws(n) :
             /\ num_points' = n
             /\ result' = run_pi_simulation(n, d)
    /\ pc' = "simulated"
    /\ UNCHANGED <<fig, appVars>>

\* The caller passes the returned tuple to plot_simulation.
CallPlotSimulation ==
    /\ pc = "simulated"
    /\ result.raised = ""
    /\ fig' = Plot(result)
    /\ pc' = "plotted"
    /\ UNCHANGED <<num_points, result, appVars>>

Next == CallRunPiSimulation \/ CallPlotSimulation

Spec == Init /\ [][Next]_vars

---------------------------------------------------------------------------
(* The page: SpecApp *)

\* lines 49-56: the values the slider can take
SliderValues == SliderMin..SliderMax

\* Mutant: a product instead of a power.
NPoints_times(slider) == 10 * slider

\* line 57: n_points = 10**n_points_slider
NPoints(slider) == 10 ^ slider

\* Mutant: the widget reports True in every run of the script.
button_always(clicked) == TRUE

\* line 60: st.sidebar.button returns True in the rerun caused by a click on
\* it and False in every other run of the script.
button(clicked) == clicked

\* Mutant: the simulation block is not guarded by the button.
BranchTaken_unguarded(run) == TRUE

\* line 135: if run_simulation
BranchTaken(run) == run

\* lines 140-147: the text results_placeholder.markdown shows
Markdown(total_count, inside_count, estimate) ==
    [kind |-> "markdown", total |-> total_count, inside |-> inside_count,
     estimate |-> Fixed(estimate, 8), actual |-> PiE8,
     difference |-> Difference8(estimate)]

\* line 155
Info == [kind |-> "info"]

\* st.empty(): a slot showing nothing
Empty == [kind |-> "empty"]

\* lines 49-64: the top of the script, run again for every event.  The two
\* st.empty() calls make fresh, empty slots; the previous run of the script
\* left no variables behind.
Rerun(slider, clicked) ==
    /\ n_points_slider' = slider
    /\ n_points' = NPoints(slider)
    /\ run_simulation' = button(clicked)
    /\ results_placeholder' = Empty
    /\ plot_placeholder' = [kind |-> "empty", fig |-> NoFig]
    /\ result' = NoResult
    /\ fig' = NoFig
    /\ simCalls' = 0
    /\ plotCalls' = 0
    /\ pc' = "branch"
    /\ UNCHANGED num_points

\* The page is opened: the script runs for the first time.
InitApp ==
    /\ pc = "branch"
    /\ num_points = 0
    /\ result = NoResult
    /\ fig = NoFig
    /\ AppIdle

\* The user moves the slider to another value.
MoveSlider ==
    /\ pc = "wait"
    /\ \E k \in SliderValues \ {n_points_slider} : Rerun(k, FALSE)
    /\ lastEvent' = "slider"
    /\ UNCHANGED triggered

\* The user clicks 'Run Simulation'.
PressButton ==
    /\ pc = "wait"
    /\ Rerun(n_points_slider, TRUE)
    /\ lastEvent' = "button"
    /\ triggered' = TRUE

\* lines 135-137
RunBranch ==
    /\ pc = "branch"
    /\ BranchTaken(run_simulation)
    /\ \E d \in Draws(n_points) : result' = run_pi_simulation(n_points, d)
    /\ simCalls' = simCalls + 1
    /\ pc' = "results"
    /\ UNCHANGED <<num_points, fig, n_points_slider, n_points, run_simulation,
                   results_placeholder, plot_placeholder, lastEvent, triggered,
                   plotCalls>>

\* lines 140-147
ShowResults ==
    /\ pc = "results"
    /\ result.raised = ""
    /\ results_placeholder' =
          Markdown(result.points_total, result.points_inside, result.pi_estimate)
    /\ pc' = "plot"
    /\ UNCHANGED <<num_points, result, fig, n_points_slider, n_points,
                   run_simulation, plot_placeholder, lastEvent, triggered,
                   simCalls, plotCalls>>

\* lines 150-151, after which the script ends and its variables are gone
ShowPlot ==
    /\ pc = "plot"
    /\ plot_placeholder' = [kind |-> "pyplot", fig |-> Plot(result)]
    /\ plotCalls' = plotCalls + 1
    /\ result' = NoResult
    /\ fig' = NoFig
    /\ pc' = "wait"
    /\ UNCHANGED <<num_points, n_points_slider, n_points, run_simulation,
                   results_placeholder, lastEvent, triggered, simCalls>>

\* lines 153-157
IdleBranch ==
    /\ pc = "branch"
    /\ ~BranchTaken(run_simulation)
    /\ results_placeholder' = Info
    /\ plot_placeholder' = [kind |-> "empty", fig |-> NoFig]
    /\ pc' = "wait"
    /\ UNCHANGED <<num_points, result, fig, n_points_slider, n_points,
                   run_simulation, lastEvent, triggered, simCalls, plotCalls>>

NextApp ==
    \/ MoveSlider
    \/ PressButton
    \/ RunBranch
    \/ ShowResults
    \/ ShowPlot
    \/ IdleBranch

SpecApp == InitApp /\ [][NextApp]_vars

---------------------------------------------------------------------------
(* Properties of run_pi_simulation and plot_simulation, checked under Spec *)

Returns == pc \in {"simulated", "plotted"}

\* Number of True entries of a boolean array, counted entry by entry.
CountTrue(b) == Len(SelectSeq(b, LAMBDA e : e))

\* C1: every returned pi_estimate equals 4 * points_inside / points_total
\* when points_total > 0, and is 0, with no error raised, when
\* points_total = 0.
C1_PiEstimate ==
    Returns =>
        /\ result.raised = ""
        /\ result.pi_estimate[2] > 0
        /\ IF result.points_total > 0
           THEN result.pi_estimate[1] * result.points_total
                    = 4 * result.points_inside * result.pi_estimate[2]
           ELSE result.points_total = 0 /\ result.pi_estimate[1] = 0

C1_Witness ==
    /\ pc = "simulated"
    /\ result.points_total = 3
    /\ result.points_inside = 2
    /\ result.pi_estimate = <<8, 3>>

\* C2: inside_circle[i] is true exactly when x[i]^2 + y[i]^2 <= 1, the
\* boundary included; the points (1,0), (0,1), (1,1), (0.1,0.1) give the
\* flags true, true, false, true, points_inside = 3 and pi_estimate = 3.
C2_InsideIff ==
    Returns =>
        /\ \A i \in 1..Len(result.x) :
              result.inside_circle[i]
                  <=> (result.x[i] * result.x[i] + result.y[i] * result.y[i]
                           <= Scale * Scale)
        /\ (result.x = <<Scale, 0, Scale, 1>> /\ result.y = <<0, Scale, Scale, 1>>)
              => /\ result.inside_circle = <<TRUE, TRUE, FALSE, TRUE>>
                 /\ result.points_inside = 3
                 /\ result.pi_estimate = <<3, 1>>

C2_Witness ==
    /\ pc = "simulated"
    /\ result.x = <<Scale, 0, Scale, 1>>
    /\ result.y = <<0, Scale, Scale, 1>>
    /\ result.inside_circle = <<TRUE, TRUE, FALSE, TRUE>>

\* C3: for every n >= 0 the three returned arrays have length n and
\* points_total = n; for n = 0 they are empty and points_inside,
\* points_total and pi_estimate are 0.
C3_Lengths ==
    (Returns /\ num_points >= 0) =>
        /\ Len(result.x) = num_points
        /\ Len(result.y) = num_points
        /\ Len(result.inside_circle) = num_points
        /\ result.points_total = num_points
        /\ num_points = 0 =>
              /\ result.x = <<>> /\ result.y = <<>> /\ result.inside_circle = <<>>
              /\ result.points_inside = 0
              /\ result.pi_estimate = <<0, 1>>

C3_Witness ==
    /\ pc = "simulated"
    /\ num_points = 1
    /\ Len(result.x) = 1 /\ Len(result.y) = 1 /\ Len(result.inside_circle) = 1
    /\ result.points_total = 1

\* C4: points_inside is the number of true entries of inside_circle, and
\* is at most points_total.
C4_Count ==
    Returns =>
        /\ result.points_inside = CountTrue(result.inside_circle)
        /\ result.points_inside <= result.points_total

C4_Witness ==
    /\ pc = "simulated"
    /\ result.points_total = 4
    /\ result.points_inside = 2
    /\ result.inside_circle = <<FALSE, TRUE, TRUE, FALSE>>

Shapes(f) == {f.patches[i].shape : i \in 1..Len(f.patches)}

\* C5: with points_total = 0 plot_simulation returns a figure holding the
\* centred 'No points generated' text, no scatter, no annotation box and no
\* legend, and the circle and square outlines; with points_total > 0 it holds
\* the two scatters, the annotation box and the legend.
C5_PlotZero ==
    pc = "plotted" =>
        /\ fig.made
        /\ Shapes(fig) = {"Circle", "Rectangle"}
        /\ Len(fig.text) = 1
        /\ IF result.points_total = 0
           THEN /\ fig.scatter = <<>>
                /\ fig.text[1].msg = "No points generated"
                /\ fig.text[1].xy = <<0, 0>>
                /\ fig.text[1].ha = "center" /\ fig.text[1].va = "center"
                /\ ~fig.text[1].bbox
                /\ ~fig.legend.shown
           ELSE /\ Len(fig.scatter) = 2
                /\ fig.scatter[1].label = "Inside Circle"
                /\ fig.scatter[2].label = "Outside Circle"
                /\ fig.text[1].bbox
                /\ fig.text[1].msg # "No points generated"
                /\ fig.legend.shown

C5_Witness ==
    /\ pc = "plotted"
    /\ num_points = 0
    /\ result.points_total = 0
    /\ fig.made
    /\ fig.text[1].msg = "No points generated"

\* C8: every returned x and y lies in the closed interval [-1, 1].
C8_InSquare ==
    Returns =>
        \A i \in 1..Len(result.x) :
            /\ -Scale <= result.x[i] /\ result.x[i] <= Scale
            /\ -Scale <= result.y[i] /\ result.y[i] <= Scale

C8_Witness ==
    /\ pc = "simulated"
    /\ Len(result.x) = 2
    /\ result.x[1] = -Scale
    /\ result.y[2] = Scale

\* C10: for every n < 0 run_pi_simulation returns, without raising, what it
\* returns for n = 0, with points_total = 0; so points_total = max(n, 0)
\* for every integer n.
C10_Negative ==
    Returns =>
        /\ result.raised = ""
        /\ result.points_total = (IF num_points > 0 THEN num_points ELSE 0)
        /\ num_points < 0 =>
              /\ result.x = <<>> /\ result.y = <<>> /\ result.inside_circle = <<>>
              /\ result.points_inside = 0
              /\ result.pi_estimate = <<0, 1>>

C10_Witness ==
    /\ pc = "simulated"
    /\ num_points = -1
    /\ result.raised = ""
    /\ result.points_total = 0

---------------------------------------------------------------------------
(* Properties of the page, checked under SpecApp *)

ScriptDone == pc = "wait"

ShowsIdle == results_placeholder.kind = "info" /\ plot_placeholder.kind = "empty"

ShowsRun == results_placeholder.kind = "markdown" /\ plot_placeholder.kind = "pyplot"

\* C6 as stated: once the script has run, the page shows the idle message
\* and no plot exactly while the button has never been pressed, and shows
\* the last run's results ever after.
C6_IdleOnlyBeforeFirstRun ==
    ScriptDone => (ShowsIdle <=> ~triggered)

\* C6, amended: once the script has run, the page shows a run's results and
\* plot exactly when the event that caused this run of the script was a press
\* of the button, and the idle message and no plot after any other event.
C6_IdleUnlessJustPressed ==
    ScriptDone =>
        IF lastEvent = "button"
        THEN ShowsRun /\ results_placeholder.total = n_points
        ELSE ShowsIdle

C6_Witness ==
    /\ ScriptDone
    /\ triggered
    /\ lastEvent = "slider"
    /\ ShowsIdle

PowersOfTen == <<10, 100, 1000, 10000, 100000, 1000000>>

\* C9: the point count of every run started from the page is 10^k for the
\* slider value k in 1..6, 10^3 before the slider is moved; so every such
\* run has points_total > 0, no figure shows 'No points generated', and the
\* estimate shown lies between 0 and 4.
C9_PageCounts ==
    /\ n_points_slider \in 1..6
    /\ n_points = PowersOfTen[n_points_slider]
    /\ lastEvent = "load" => n_points = 1000
    /\ pc \in {"results", "plot"} =>
          (result.points_total = n_points /\ result.points_total > 0)
    /\ results_placeholder.kind = "markdown" =>
          /\ results_placeholder.total > 0
          /\ 0 <= results_placeholder.estimate
          /\ results_placeholder.estimate <= 4 * (10 ^ 8)
    /\ plot_placeholder.kind = "pyplot" =>
          /\ plot_placeholder.fig.text[1].msg # "No points generated"
          /\ plot_placeholder.fig.title > 0

C9_Witness ==
    /\ ScriptDone
    /\ n_points_slider = 1
    /\ lastEvent = "button"
    /\ results_placeholder.kind = "markdown"
    /\ results_placeholder.total = 10
    /\ results_placeholder.estimate = 4 * (10 ^ 8)

====
